---- MODULE Spec2Model ----
(***************************************************************************)
(* A model of ClipboardMaster.Core (lib.rs, ffi.rs): the SQLite-backed     *)
(* Database (save_item, cleanup_old_items, row_to_item), the               *)
(* ClipboardCore lifecycle (start, stop) and the ClipboardMonitor listener *)
(* thread (monitor_loop, capture_clipboard_content, capture_text).         *)
(*                                                                         *)
(* Time is counted in milliseconds; the database keeps whole seconds       *)
(* (DateTime::timestamp).  Option<T> is the empty sequence (None) or the   *)
(* one-element sequence <<x>> (Some(x)).  A string is a sequence of        *)
(* Unicode scalar values.                                                  *)
(***************************************************************************)
EXTENDS Integers, Sequences, FiniteSets, TLC

VARIABLES
    clock,      \* Utc::now(), in milliseconds
    db,         \* the committed content of the SQLite database
    tx,         \* the open transaction of save_item: <<>> or <<working copy>>
    ret,        \* the Database / Core call in flight or last completed
    settings,   \* ClipboardCore.settings (AppSettings)
    monitor,    \* ClipboardCore.monitor: 0 (None) or the index of the monitor
    running,    \* running[m]: the AtomicBool of the m-th ClipboardMonitor
    th,         \* th[m]: the listener thread spawned by the m-th monitor
    classReg,   \* the window class "ClipboardMasterWindow" is registered
    clipboard,  \* the content of the OS clipboard
    changes,    \* number of clipboard changes so far
    events,     \* what was sent on event_tx, oldest first
    uuids,      \* number of Uuid::new_v4() values handed out
    config,     \* the content of config.json
    upd,        \* the update_settings call in flight on another thread
    seen,       \* seen[s]: the events subscriber s took from event_rx
    stats,      \* the get_statistics call in flight on another thread
    upd2,       \* a second update_settings call, on a thread of its own
    locks       \* the RwLock of the settings: who reads, who writes

storeVars == <<clock, db, tx, ret>>
monVars == <<monitor, running, th, classReg, clipboard, changes, events, uuids>>
callVars == <<config, upd, seen, stats, upd2, locks>>
vars == <<clock, db, tx, ret, settings, monitor, running, th, classReg,
          clipboard, changes, events, uuids, config, upd, seen, stats, upd2,
          locks>>

-----------------------------------------------------------------------------
(* Units and program constants *)

MillisPerSec == 1000
DedupWindowSecs == 5
SecsPerDay == 86400

PreviewLimit == 100

(* Bounds of the model *)
MaxId == 2
MaxStarts == 2
MaxChanges == 2
MaxSubs == 2

Ids == 1..MaxId

None == <<>>
Some(x) == <<x>>

\* "p", "q" and "a" as sequences of scalar values
StrP == <<112>>
StrQ == <<113>>

-----------------------------------------------------------------------------
(* chrono *)

\* DateTime::timestamp(): whole seconds since the epoch
Timestamp(t) == t \div MillisPerSec

\* DateTime::from_timestamp(secs, 0)
FromTimestamp(s) == s * MillisPerSec

\* Utc::now() - chrono::Duration::seconds(n)
MinusSeconds(t, n) == t - n * MillisPerSec

\* Utc::now() - chrono::Duration::days(n)
MinusDays(t, n) == t - n * SecsPerDay * MillisPerSec

-----------------------------------------------------------------------------
(* serde_json and Uuid text forms: lossless, but not the value itself *)

ToJson(v) == <<"json", v>>
FromJson(j) == j[2]

UuidToString(u) == <<"uuid", u>>
ParseUuid(s) == s[2]

BoolToInt(b) == IF b THEN 1 ELSE 0
IntToBool(i) == i # 0

-----------------------------------------------------------------------------
(* ClipboardItem and the clipboard_items row *)

ContentText(s) == [kind |-> "Text", text |-> s]

ContentTypeOf(content) ==
    CASE content.kind = "Text" -> "text"
      [] content.kind = "Image" -> "image"
      [] content.kind = "FileList" -> "file"
      [] content.kind = "Html" -> "html"
      [] content.kind = "RichText" -> "richtext"
      [] OTHER -> content.kind

ItemToRow(item) ==
    [id            |-> UuidToString(item.id),
     content_type  |-> ContentTypeOf(item.content),
     content_json  |-> ToJson(item.content),
     timestamp     |-> Timestamp(item.timestamp),
     tags_json     |-> ToJson(item.tags),
     favorite      |-> BoolToInt(item.favorite),
     pinned        |-> BoolToInt(item.pinned),
     source_app    |-> item.source_app,
     source_window |-> item.source_window,
     preview_text  |-> item.preview_text,
     preview_image |-> item.preview_image,
     metadata_json |-> ToJson(item.metadata)]

\* row_to_item reading the pinned flag from the favorite column
row_to_item_PinnedFromFavorite(row) ==
    [id            |-> ParseUuid(row.id),
     content       |-> FromJson(row.content_json),
     timestamp     |-> FromTimestamp(row.timestamp),
     tags          |-> FromJson(row.tags_json),
     favorite      |-> IntToBool(row.favorite),
     pinned        |-> IntToBool(row.favorite),
     source_app    |-> row.source_app,
     source_window |-> row.source_window,
     preview_text  |-> row.preview_text,
     preview_image |-> row.preview_image,
     metadata      |-> FromJson(row.metadata_json)]

row_to_item(row) ==
    [id            |-> ParseUuid(row.id),
     content       |-> FromJson(row.content_json),
     timestamp     |-> FromTimestamp(row.timestamp),
     tags          |-> FromJson(row.tags_json),
     favorite      |-> IntToBool(row.favorite),
     pinned        |-> IntToBool(row.pinned),
     source_app    |-> row.source_app,
     source_window |-> row.source_window,
     preview_text  |-> row.preview_text,
     preview_image |-> row.preview_image,
     metadata      |-> FromJson(row.metadata_json)]

-----------------------------------------------------------------------------
(* The database: clipboard_items, item_tags, item_metadata *)

EmptyDb == [items |-> {}, tags |-> {}, meta |-> {}]

\* the near-duplicate query with the window forgotten: timestamp > now
ExistsRecent_NoWindow(d, item, now) ==
    \E r \in d.items :
        /\ r.preview_text = item.preview_text
        /\ r.timestamp > Timestamp(now)

\* the near-duplicate query with the timestamp condition forgotten
ExistsRecent_AnyAge(d, item, now) ==
    \E r \in d.items : r.preview_text = item.preview_text

\* SELECT 1 FROM clipboard_items WHERE preview_text = ? AND timestamp > ?
ExistsRecent(d, item, now) ==
    \E r \in d.items :
        /\ r.preview_text = item.preview_text
        /\ r.timestamp > Timestamp(MinusSeconds(now, DedupWindowSecs))

\* INSERT OR REPLACE INTO clipboard_items: the row of the same primary key,
\* if any, gives way to the new row
InsertOrReplace(d, row) ==
    [d EXCEPT !.items = {r \in @ : r.id # row.id} \cup {row}]

\* save_item without its DELETE FROM item_tags
DeleteTags_Skipped(d, sid) == d

\* DELETE FROM item_tags WHERE item_id = ?
DeleteTags(d, sid) == [d EXCEPT !.tags = {t \in @ : t[1] # sid}]

\* DELETE FROM item_metadata WHERE item_id = ?
DeleteMeta(d, sid) == [d EXCEPT !.meta = {m \in @ : m[1] # sid}]

\* for tag in &item.tags { INSERT INTO item_tags ... }: PRIMARY KEY
\* (item_id, tag) rejects a pair that is already there, and the `?` returns
RECURSIVE InsertTags(_, _, _)
InsertTags(d, sid, tags) ==
    IF tags = <<>> THEN [ok |-> TRUE, db |-> d]
    ELSE IF <<sid, Head(tags)>> \in d.tags THEN [ok |-> FALSE, db |-> d]
    ELSE InsertTags([d EXCEPT !.tags = @ \cup {<<sid, Head(tags)>>}],
                    sid, Tail(tags))

\* for (key, value) in &item.metadata { INSERT INTO item_metadata ... }:
\* the keys of a HashMap are distinct, so no insert meets its own key
InsertMeta(d, sid, metadata) ==
    [d EXCEPT !.meta = @ \cup {<<sid, k, metadata[k]>> : k \in DOMAIN metadata}]

\* statements run in autocommit mode: what was written stays
Rollback_Autocommit(committed, work) == work

\* dropping the rusqlite Transaction without commit rolls it back: the
\* committed content stays, the working copy is discarded
Rollback(committed, work) == committed

\* tx.commit()
Commit(committed, work) == work

\* DELETE FROM clipboard_items WHERE ...; foreign_keys = ON and ON DELETE
\* CASCADE take the tag and metadata rows of a deleted item with it
DeleteItems(d, gone) ==
    [items |-> {r \in d.items : r.id \notin gone},
     tags  |-> {t \in d.tags : t[1] \notin gone},
     meta  |-> {m \in d.meta : m[1] \notin gone}]

\* DELETE FROM item_tags / item_metadata WHERE item_id NOT IN (SELECT id ...)
DeleteOrphans(d) ==
    LET live == {r.id : r \in d.items}
    IN  [d EXCEPT !.tags = {t \in @ : t[1] \in live},
                  !.meta = {m \in @ : m[1] \in live}]

\* the cutoff of cleanup_old_items
Cutoff(keep_days, now) == Timestamp(MinusDays(now, keep_days))

\* the DELETE of cleanup_old_items with "favorite = 0" left out
CleanupDoomed_NoFavorite(r, keep_days, now) ==
    /\ r.pinned = 0
    /\ r.timestamp < Cutoff(keep_days, now)

\* the first statement of cleanup_old_items
CleanupDoomed(r, keep_days, now) ==
    /\ r.favorite = 0
    /\ r.pinned = 0
    /\ r.timestamp < Cutoff(keep_days, now)

cleanup_old_items(d, keep_days, now) ==
    LET gone == {r.id : r \in {x \in d.items :
                                    CleanupDoomed(x, keep_days, now)}}
    IN  DeleteOrphans(DeleteItems(d, gone))

\* Database::get_item: the row of that id through row_to_item, or None
get_item(d, id) ==
    LET hit == {r \in d.items : r.id = UuidToString(id)}
    IN  IF hit = {} THEN None ELSE Some(row_to_item(CHOOSE r \in hit : TRUE))

-----------------------------------------------------------------------------
(* Database::save_item, statement by statement *)

\* up to the first statement that the data of the item can make fail:
\* the near-duplicate query, INSERT OR REPLACE, DELETE FROM item_tags
SaveMainRow(d, item) ==
    DeleteTags(InsertOrReplace(d, ItemToRow(item)), UuidToString(item.id))

\* the tag loop on an item_tags table without its primary key
SaveTagRows_Unchecked(work, item) ==
    [ok |-> TRUE,
     db |-> [work EXCEPT
                !.tags = @ \cup {<<UuidToString(item.id), item.tags[i]>> :
                                    i \in DOMAIN item.tags}]]

\* the tag loop
SaveTagRows(work, item) == InsertTags(work, UuidToString(item.id), item.tags)

\* DELETE FROM item_metadata and the metadata loop
SaveMetaRows(work, item) ==
    InsertMeta(DeleteMeta(work, UuidToString(item.id)),
               UuidToString(item.id), item.metadata)

\* the whole of save_item as one call: the new committed content and what
\* happened; "stored" and "absorbed" both return Ok(()) to the caller
save_item(d, item, now, commitOk) ==
    IF ExistsRecent(d, item, now)
    THEN [db |-> Rollback(d, d), result |-> "absorbed"]
    ELSE LET t == SaveTagRows(SaveMainRow(d, item), item)
         IN  IF ~t.ok THEN [db |-> Rollback(d, t.db), result |-> "err"]
             ELSE IF ~commitOk
                  THEN [db |-> Rollback(d, SaveMetaRows(t.db, item)),
                        result |-> "err"]
                  ELSE [db |-> Commit(d, SaveMetaRows(t.db, item)),
                        result |-> "stored"]

ReturnsOk(r) == r.result \in {"stored", "absorbed", "ok"}

-----------------------------------------------------------------------------
(* The calls of the Database API *)

Idle == [op |-> "none", item |-> None, days |-> 0, stage |-> "done",
         result |-> "ok", count |-> 0]

Call(op, item, days, stage, result, count) ==
    [op |-> op, item |-> item, days |-> days, stage |-> stage,
     result |-> result, count |-> count]

\* save_item, first part: open the transaction, near-duplicate check,
\* main row, tag rows deleted
SaveBegin(item) ==
    /\ tx = None
    /\ ret.stage = "done"
    /\ IF ExistsRecent(db, item, clock)
       THEN /\ ret' = Call("save", Some(item), 0, "done", "absorbed", 0)
            /\ tx' = None
       ELSE /\ ret' = Call("save", Some(item), 0, "tags", "ok", 0)
            /\ tx' = Some(SaveMainRow(db, item))
    /\ UNCHANGED <<clock, db, settings, monVars, callVars>>

\* save_item, second part: the tag loop; a failed insert returns the error
\* and drops the transaction
SaveTags ==
    /\ tx # None
    /\ ret.op = "save" /\ ret.stage = "tags"
    /\ LET t == SaveTagRows(tx[1], ret.item[1])
       IN  IF t.ok
           THEN /\ tx' = Some(t.db)
                /\ ret' = [ret EXCEPT !.stage = "commit"]
                /\ db' = db
           ELSE /\ tx' = None
                /\ ret' = [ret EXCEPT !.stage = "done", !.result = "err"]
                /\ db' = Rollback(db, t.db)
    /\ UNCHANGED <<clock, settings, monVars, callVars>>

\* save_item, last part: metadata rows and tx.commit(), which the storage
\* engine may refuse
SaveCommit(commitOk) ==
    /\ tx # None
    /\ ret.op = "save" /\ ret.stage = "commit"
    /\ LET work == SaveMetaRows(tx[1], ret.item[1])
       IN  IF commitOk
           THEN /\ db' = Commit(db, work)
                /\ ret' = [ret EXCEPT !.stage = "done", !.result = "stored"]
           ELSE /\ db' = Rollback(db, work)
                /\ ret' = [ret EXCEPT !.stage = "done", !.result = "err"]
    /\ tx' = None
    /\ UNCHANGED <<clock, settings, monVars, callVars>>

\* Database::cleanup_old_items(keep_days); the storage engine may refuse
\* the DELETE, and the `?` returns with nothing removed
Cleanup(keep_days, ok) ==
    /\ tx = None
    /\ ret.stage = "done"
    /\ IF ok
       THEN /\ db' = cleanup_old_items(db, keep_days, clock)
            /\ ret' = Call("cleanup", None, keep_days, "done", "ok",
                           Cardinality(db.items) - Cardinality(db'.items))
       ELSE /\ db' = db
            /\ ret' = Call("cleanup", None, keep_days, "done", "err", 0)
    /\ UNCHANGED <<clock, tx, settings, monVars, callVars>>

-----------------------------------------------------------------------------
(* The inputs of the Database API *)

MkItem(id, text, ts, fav, pin, tags, meta, app, img) ==
    [id            |-> id,
     content       |-> ContentText(text),
     timestamp     |-> ts,
     tags          |-> tags,
     favorite      |-> fav,
     pinned        |-> pin,
     source_app    |-> app,
     source_window |-> app,
     preview_text  |-> text,
     preview_image |-> img,
     metadata      |-> meta]

NoMeta == [k \in {} |-> <<>>]
OneMeta == [k \in {"k"} |-> "v"]

\* the capture times of the entries handed to save_item
Stamps == {500, 6000}

\* entries that differ in identifier, preview text and capture time
PlainItems ==
    {MkItem(id, text, ts, FALSE, FALSE, <<>>, NoMeta, None, None) :
        id \in Ids, text \in {StrP, StrQ}, ts \in Stamps}

\* favorite and pinned entries
ProtectedItems ==
    {MkItem(id, StrP, 500, fp[1], fp[2], <<>>, NoMeta, None, None) :
        id \in Ids, fp \in {<<TRUE, FALSE>>, <<FALSE, TRUE>>}}

\* entries with tags (one of them a repeated tag), metadata, source and
\* preview image
RichItems ==
    {MkItem(id, StrQ, 500, FALSE, FALSE, tags, OneMeta, Some("app"),
            Some(<<1, 2>>)) :
        id \in Ids, tags \in {<<"a", "b">>, <<"a", "a">>}}

Items == PlainItems \cup ProtectedItems \cup RichItems

\* the moments the wall clock is looked at
Instants ==
    {0, 500, FromTimestamp(DedupWindowSecs), FromTimestamp(SecsPerDay + 1)}

KeepDays == {0, 1}

\* the AppSettings the model follows: keep_days, compress_images and the
\* per-type save toggles, the flags as default_settings sets them
DefaultSettings(d) ==
    [keep_days |-> d, compress_images |-> TRUE, save_text |-> TRUE,
     save_images |-> TRUE, save_files |-> TRUE, save_html |-> TRUE]

\* the fields of AppSettings that are flags
SettingsFlags ==
    {"compress_images", "save_text", "save_images", "save_files", "save_html"}

\* time passes
Advance ==
    /\ \E t \in Instants : t > clock /\ clock' = t
    /\ UNCHANGED <<db, tx, ret, settings, monVars, callVars>>

-----------------------------------------------------------------------------
(* Calls made on the Core from other threads, before any of them *)

\* the threads that take events from receive_events()
Subs == 1..MaxSubs

\* no update_settings call in flight; of a call, found keeps the settings
\* that were in effect when it was made
UpdIdle ==
    [pc |-> "idle", doc |-> None, arg |-> None, result |-> "none", calls |-> 0,
     found |-> None]

\* no get_statistics call in flight
StatsIdle ==
    [pc |-> "idle", result |-> "none", total_items |-> 0, text_items |-> 0,
     image_items |-> 0, file_items |-> 0, html_items |-> 0,
     favorite_items |-> 0, pinned_items |-> 0]

\* Arc::new(RwLock::new(settings)): nobody holds the lock
Unlocked == [readers |-> {}, writer |-> None]

\* ClipboardCore::new: load_settings has read, or written, config.json;
\* nothing was received, no call is in flight
InitCalls ==
    /\ config = ToJson(settings)
    /\ upd = UpdIdle
    /\ seen = [s \in Subs |-> <<>>]
    /\ stats = StatsIdle
    /\ upd2 = UpdIdle
    /\ locks = Unlocked

-----------------------------------------------------------------------------
(* The Database driven through its API, the Core never started *)

InitStore ==
    /\ clock = 0
    /\ db = EmptyDb
    /\ tx = None
    /\ ret = Idle
    /\ settings \in {DefaultSettings(d) : d \in KeepDays}
    /\ monitor = 0
    /\ running = <<>>
    /\ th = <<>>
    /\ classReg = FALSE
    /\ clipboard = None
    /\ changes = 0
    /\ events = <<>>
    /\ uuids = 0
    /\ InitCalls

NextStore ==
    \/ Advance
    \/ \E item \in Items : SaveBegin(item)
    \/ SaveTags
    \/ \E ok \in BOOLEAN : SaveCommit(ok)
    \/ \E d \in KeepDays, ok \in BOOLEAN : Cleanup(d, ok)

SpecStore == InitStore /\ [][NextStore]_vars

-----------------------------------------------------------------------------
(* Properties of the Database *)

\* a step that is a call of cleanup_old_items(d)
CleanupStep(d) ==
    /\ ret.stage = "done" /\ tx = None
    /\ ret'.op = "cleanup" /\ ret'.days = d /\ ret'.result = "ok"
    /\ clock' = clock

\* a step that is the start of save_item(item)
SaveBeginStep(item) ==
    /\ ret.stage = "done" /\ tx = None
    /\ ret'.op = "save" /\ ret'.item = Some(item)
    /\ clock' = clock

\* a step that ends save_item with a commit
SaveStoredStep ==
    /\ ret.op = "save" /\ ret.stage = "commit"
    /\ ret'.stage = "done" /\ ret'.result = "stored"

Abs(n) == IF n < 0 THEN -n ELSE n

\* the entry with its timestamp cut to whole seconds
Truncated(item) ==
    [item EXCEPT !.timestamp = FromTimestamp(Timestamp(@))]

\* C1, as stated: cleanup(d) removes no favorite or pinned entry and no
\* entry captured at or after now - d, and every entry that remains with a
\* capture time before now - d is favorite or pinned
C1_Original ==
    [][\A d \in KeepDays : CleanupStep(d) =>
          /\ \A r \in db.items \ db'.items :
                /\ r.favorite = 0 /\ r.pinned = 0
                /\ FromTimestamp(r.timestamp) < MinusDays(clock, d)
          /\ \A r \in db'.items :
                FromTimestamp(r.timestamp) < MinusDays(clock, d)
                    => (r.favorite = 1 \/ r.pinned = 1)]_vars

\* C1, amended: cleanup(d) removes no favorite or pinned entry and no entry
\* captured at or after now - d, and every entry that remains with a
\* whole-second capture time before the whole second of now - d is favorite
\* or pinned
C1_Theorem ==
    [][\A d \in KeepDays : CleanupStep(d) =>
          /\ \A r \in db.items \ db'.items :
                /\ r.favorite = 0 /\ r.pinned = 0
                /\ FromTimestamp(r.timestamp) < MinusDays(clock, d)
          /\ \A r \in db'.items :
                r.timestamp < Timestamp(MinusDays(clock, d))
                    => (r.favorite = 1 \/ r.pinned = 1)]_vars

\* a cleanup has removed an entry and left a favorite one that is as old
C1_Witness ==
    /\ ret.op = "cleanup" /\ ret.count > 0
    /\ \E r \in db.items :
          r.favorite = 1 /\ r.timestamp < Cutoff(ret.days, clock)

\* C2, as stated: two entries with the same preview text and capture times
\* within 5 seconds of each other are never both stored
C2_Original ==
    \A r1, r2 \in db.items :
        (r1.id # r2.id /\ r1.preview_text = r2.preview_text)
            => Abs(r1.timestamp - r2.timestamp) >= DedupWindowSecs

\* C2, amended: when an entry with the same preview text is stored with a
\* whole-second capture time later than the moment of the save minus 5
\* seconds, save returns success and stores nothing
C2_Theorem ==
    [][\A item \in Items :
          (/\ SaveBeginStep(item)
           /\ \E r \in db.items :
                 /\ r.preview_text = item.preview_text
                 /\ r.timestamp + DedupWindowSecs > Timestamp(clock))
          => (/\ ret'.stage = "done" /\ ret'.result = "absorbed"
              /\ db' = db /\ tx' = None)]_vars

\* the second of two entries with the same preview text was absorbed: the
\* first is stored, the second is not
C2_Witness ==
    /\ ret.op = "save" /\ ret.result = "absorbed"
    /\ \E r \in db.items :
          /\ r.preview_text = ret.item[1].preview_text
          /\ r.id # UuidToString(ret.item[1].id)
    /\ get_item(db, ret.item[1].id) = None

\* C3, as stated: an entry whose capture time is more than 5 seconds away
\* from that of every stored entry with the same preview text (all of them
\* other entries) is not absorbed
C3_Original ==
    [][\A item \in Items :
          (/\ SaveBeginStep(item)
           /\ \A r \in db.items :
                 r.preview_text = item.preview_text
                    => /\ r.id # UuidToString(item.id)
                       /\ Abs(r.timestamp - Timestamp(item.timestamp))
                            > DedupWindowSecs)
          => ret'.result # "absorbed"]_vars

\* C3, amended: an entry is not absorbed when every stored entry with the
\* same preview text has a whole-second capture time at or before the
\* moment of the save minus 5 seconds, and a save that commits leaves every
\* other entry stored next to the new one
C3_Theorem ==
    [][/\ \A item \in Items :
            (/\ SaveBeginStep(item)
             /\ \A r \in db.items :
                   r.preview_text = item.preview_text
                      => r.timestamp + DedupWindowSecs <= Timestamp(clock))
            => (ret'.stage = "tags" /\ tx' # None)
       /\ SaveStoredStep =>
            db'.items = {r \in db.items : r.id # UuidToString(ret.item[1].id)}
                            \cup {ItemToRow(ret.item[1])}]_vars

\* two entries with the same preview text, captured more than 5 seconds
\* apart, are both stored
C3_Witness ==
    /\ ret.op = "save" /\ ret.stage = "done" /\ ret.result = "stored"
    /\ \E r \in db.items :
          /\ r.id # UuidToString(ret.item[1].id)
          /\ r.preview_text = ret.item[1].preview_text
          /\ Abs(r.timestamp - Timestamp(ret.item[1].timestamp))
                > DedupWindowSecs
    /\ get_item(db, ret.item[1].id) # None

\* C4, as stated: after save(e) has returned success, get(e.id) returns e,
\* the timestamp cut to whole seconds
C4_Original ==
    (ret.op = "save" /\ ret.stage = "done" /\ ReturnsOk(ret))
        => get_item(db, ret.item[1].id) = Some(Truncated(ret.item[1]))

\* C4, amended: after save(e) has returned success without the
\* near-duplicate rule absorbing e, get(e.id) returns e, the timestamp cut to
\* whole seconds
C4_Theorem ==
    (ret.op = "save" /\ ret.stage = "done" /\ ret.result = "stored")
        => get_item(db, ret.item[1].id) = Some(Truncated(ret.item[1]))

\* a stored entry with tags, metadata, source and preview image whose
\* timestamp was cut, and a stored favorite that is not pinned
C4_Witness ==
    /\ ret.op = "save" /\ ret.stage = "done" /\ ret.result = "stored"
    /\ ret.item[1].tags # <<>>
    /\ DOMAIN ret.item[1].metadata # {}
    /\ ret.item[1].preview_image # None
    /\ Truncated(ret.item[1]) # ret.item[1]
    /\ \E r \in db.items : r.favorite # r.pinned

\* C5: while save_item is under way and when it returns an error, the
\* committed entries, tag rows and metadata rows are what they were
C5_Theorem ==
    [][(ret'.op = "save" /\ (ret'.stage # "done" \/ ret'.result = "err"))
          => db' = db]_vars

\* save_item has failed on a repeated tag after replacing the main row of
\* an entry that is stored with other content
C5_Witness ==
    /\ ret.op = "save" /\ ret.stage = "done" /\ ret.result = "err"
    /\ \E r \in db.items :
          /\ r.id = UuidToString(ret.item[1].id)
          /\ r # ItemToRow(ret.item[1])

-----------------------------------------------------------------------------
(* Strings: UTF-16 in the clipboard, UTF-8 in a Rust String *)

\* the number of bytes of a scalar value in UTF-8
Utf8Len(c) ==
    IF c < 128 THEN 1 ELSE IF c < 2048 THEN 2 ELSE IF c < 65536 THEN 3 ELSE 4

\* the length in bytes of the first k characters
RECURSIVE ByteLenUpTo(_, _)
ByteLenUpTo(s, k) ==
    IF k = 0 THEN 0 ELSE Utf8Len(s[k]) + ByteLenUpTo(s, k - 1)

\* String::len(): the length in bytes
ByteLen(s) == ByteLenUpTo(s, Len(s))

\* str::is_char_boundary walked from the start: the number of leading
\* characters that make up exactly n bytes, or -1 when byte n falls inside
\* a character or beyond the end (k characters make up `bytes` bytes)
RECURSIVE BoundaryFrom(_, _, _, _)
BoundaryFrom(s, n, k, bytes) ==
    IF bytes = n THEN k
    ELSE IF bytes > n \/ k = Len(s) THEN -1
    ELSE BoundaryFrom(s, n, k + 1, bytes + Utf8Len(s[k + 1]))

CharsInBytes(s, n) == BoundaryFrom(s, n, 0, 0)

\* the units before the terminating NUL: while *ptr.add(len) != 0
UntilNul(u) ==
    LET z == {i \in 1..Len(u) : u[i] = 0}
    IN  IF z = {} THEN u
        ELSE SubSeq(u, 1, (CHOOSE i \in z : \A j \in z : i <= j) - 1)

IsHighSurrogate(u) == u >= 55296 /\ u <= 56319
IsLowSurrogate(u) == u >= 56320 /\ u <= 57343

\* what the i-th unit contributes: nothing when it is the second half of a
\* surrogate pair, one scalar value for the first half of a pair, U+FFFD
\* for a lone surrogate, itself otherwise
DecodeAt(u, i) ==
    IF i > 1 /\ IsLowSurrogate(u[i]) /\ IsHighSurrogate(u[i - 1]) THEN <<>>
    ELSE IF IsHighSurrogate(u[i]) /\ i < Len(u) /\ IsLowSurrogate(u[i + 1])
    THEN <<65536 + (u[i] - 55296) * 1024 + (u[i + 1] - 56320)>>
    ELSE IF IsHighSurrogate(u[i]) \/ IsLowSurrogate(u[i]) THEN <<65533>>
    ELSE <<u[i]>>

\* the decoding of the units lo..hi
RECURSIVE DecodeRange(_, _, _)
DecodeRange(u, lo, hi) ==
    IF lo > hi THEN <<>>
    ELSE IF lo = hi THEN DecodeAt(u, lo)
    ELSE DecodeRange(u, lo, (lo + hi) \div 2)
            \o DecodeRange(u, (lo + hi) \div 2 + 1, hi)

\* String::from_utf16_lossy: a surrogate pair is one scalar value, a lone
\* surrogate becomes U+FFFD
FromUtf16Lossy(u) == DecodeRange(u, 1, Len(u))

Ellipsis == <<46, 46, 46>>

\* the preview of capture_text: text.len() counts bytes and &text[..100]
\* panics when byte 100 is not a character boundary
TextPreview(text) ==
    IF ByteLen(text) > PreviewLimit
    THEN LET k == CharsInBytes(text, PreviewLimit)
         IN  IF k < 0 THEN [panic |-> TRUE, text |-> <<>>]
             ELSE [panic |-> FALSE, text |-> SubSeq(text, 1, k) \o Ellipsis]
    ELSE [panic |-> FALSE, text |-> text]

-----------------------------------------------------------------------------
(* One capture: capture_clipboard_content and capture_text *)

\* capture_text: GetClipboardData / GlobalLock may fail (dataOk)
capture_text(item, units, dataOk) ==
    IF ~dataOk THEN [kind |-> "err", item |-> item]
    ELSE LET text == FromUtf16Lossy(UntilNul(units))
             pv == TextPreview(text)
         IN  IF pv.panic THEN [kind |-> "panic", item |-> item]
             ELSE [kind |-> "ok",
                   item |-> [item EXCEPT !.content = ContentText(text),
                                         !.preview_text = pv.text]]

\* format!("[Image {}x{}]", width, height)
ImagePreview(w, h) == <<"[Image ", w, "x", h, "]">>

\* the thumbnail of 128 x 128 at most, when compress_images is set
Thumbnail(s, bmp) ==
    IF s.compress_images THEN Some(<<"png", "thumbnail", bmp>>) ELSE None

\* capture_image: GetClipboardData, the image buffer or the PNG encoding
\* may fail (dataOk)
capture_image(item, bmp, s, dataOk) ==
    IF ~dataOk THEN [kind |-> "err", item |-> item]
    ELSE [kind |-> "ok",
          item |-> [item EXCEPT
                      !.content = [kind |-> "Image", data |-> <<"png", bmp>>,
                                   width |-> bmp.width, height |-> bmp.height],
                      !.preview_text = ImagePreview(bmp.width, bmp.height),
                      !.preview_image = Thumbnail(s, bmp)]]

\* capture_files: the dropped paths become a FileList
capture_files(item, paths, dataOk) ==
    IF ~dataOk THEN [kind |-> "err", item |-> item]
    ELSE [kind |-> "ok",
          item |-> [item EXCEPT
                      !.content = [kind |-> "FileList", files |-> paths],
                      !.preview_text = <<"[Files ", Len(paths), "]">>]]

\* capture_html: the markup format becomes its raw text
capture_html(item, markup, dataOk) ==
    IF ~dataOk THEN [kind |-> "err", item |-> item]
    ELSE [kind |-> "ok",
          item |-> [item EXCEPT
                      !.content = [kind |-> "Html", text |-> markup],
                      !.preview_text = <<"[Html]">>]]

Formats == {"text", "image", "files", "html"}

\* the else-if chain probing image before text
SelectFormat_ImageFirst(available) ==
    IF "image" \in available THEN "image"
    ELSE IF "text" \in available THEN "text"
    ELSE IF "files" \in available THEN "files"
    ELSE IF "html" \in available THEN "html"
    ELSE "none"

\* the else-if chain of capture_clipboard_content: CF_UNICODETEXT, then
\* CF_BITMAP, then CF_HDROP, then "HTML Format"
SelectFormat(available) ==
    IF "text" \in available THEN "text"
    ELSE IF "image" \in available THEN "image"
    ELSE IF "files" \in available THEN "files"
    ELSE IF "html" \in available THEN "html"
    ELSE "none"

\* capture_clipboard_content: OpenClipboard may fail (openOk); the item
\* starts as an empty Text; the capture of the selected format may fail
\* (it succeeds for the formats in decodable) and its `?` returns the
\* error; register_format, called when none of the first three formats is
\* there, may fail (regOk); the item is returned as it is when no probed
\* format is on the clipboard
capture_clipboard_content(s, clip, now, id, openOk, decodable, regOk) ==
    LET blank == MkItem(id, <<>>, now, FALSE, FALSE, <<>>, NoMeta,
                        clip.app, None)
        f == SelectFormat(clip.formats)
    IN  IF ~openOk THEN [kind |-> "err", item |-> blank]
        ELSE IF f = "text"
        THEN capture_text(blank, clip.text, f \in decodable)
        ELSE IF f = "image"
        THEN capture_image(blank, clip.image, s, f \in decodable)
        ELSE IF f = "files"
        THEN capture_files(blank, clip.files, f \in decodable)
        ELSE IF ~regOk THEN [kind |-> "err", item |-> blank]
        ELSE IF f = "html"
        THEN capture_html(blank, clip.html, f \in decodable)
        ELSE [kind |-> "ok", item |-> blank]

ItemAdded(item) == [kind |-> "ItemAdded", item |-> item]

\* Uuid::new_v4(): a value never seen before
NewUuid(n) == MaxId + n

-----------------------------------------------------------------------------
(* ClipboardCore::start / stop and the listener thread *)

NewThread == [pc |-> "setup", hwnd |-> FALSE, listening |-> FALSE, msgs |-> 0]

Monitors == 1..Len(running)

\* the thread has not returned from monitor_loop
Alive(m) == th[m].pc \in {"setup", "check", "peek"}

\* the thread is in the message loop with its window registered as a
\* clipboard listener
Servicing(m) == th[m].pc \in {"check", "peek"} /\ th[m].listening

\* Core::cleanup_old_items handing a keep_days of 0 to the Database
StopKeepDays_Zero(s) == 0

\* the keep_days that Core::cleanup_old_items hands to the Database
StopKeepDays(s) == s.keep_days

\* ClipboardCore::start: a new ClipboardMonitor with a flag of its own takes
\* the place of self.monitor, its flag is set and its thread is spawned
CoreStart ==
    /\ Len(running) < MaxStarts
    /\ ret.stage = "done"
    /\ running' = Append(running, TRUE)
    /\ th' = Append(th, NewThread)
    /\ monitor' = Len(running) + 1
    /\ ret' = Call("start", None, 0, "done", "ok", 0)
    /\ UNCHANGED <<clock, db, tx, settings, classReg, clipboard, changes,
                   events, uuids, callVars>>

\* stop() that leaves the flag of the monitor as it is
MonitorStop_Skipped(r, m) == r

\* `if let Some(monitor) = &self.monitor { monitor.stop()?; }`:
\* ClipboardMonitor::stop stores false in the flag of that monitor
MonitorStop(r, m) == IF m = 0 THEN r ELSE [r EXCEPT ![m] = FALSE]

\* ClipboardCore::stop: the flag of self.monitor, if there is one, is
\* cleared; then cleanup_old_items with the keep_days of the settings
CoreStop(ok) ==
    /\ ret.stage = "done"
    /\ tx = None
    /\ running' = MonitorStop(running, monitor)
    /\ IF ok
       THEN /\ db' = cleanup_old_items(db, StopKeepDays(settings), clock)
            /\ ret' = Call("stop", None, StopKeepDays(settings), "done", "ok",
                           Cardinality(db.items) - Cardinality(db'.items))
       ELSE /\ db' = db
            /\ ret' = Call("stop", None, StopKeepDays(settings), "done",
                           "err", 0)
    /\ UNCHANGED <<clock, tx, settings, monitor, th, classReg, clipboard,
                   changes, events, uuids, callVars>>

\* monitor_loop before the message loop: window class, hidden window,
\* AddClipboardFormatListener, each with a `?`.  The class is never
\* unregistered; Windows refuses to register a class of the same name again
\* ("class_exists"), and whether that refusal reaches the `?` is left open,
\* so that "ok" stays possible
LSetup(m, outcome) ==
    /\ m \in Monitors
    /\ th[m].pc = "setup"
    /\ outcome = "class_exists" => classReg
    /\ CASE outcome = "ok" ->
              /\ th' = [th EXCEPT ![m] = [pc |-> "check", hwnd |-> TRUE,
                                          listening |-> TRUE, msgs |-> 0]]
              /\ classReg' = TRUE
         [] outcome = "class_exists" ->
              /\ th' = [th EXCEPT ![m].pc = "err_class"]
              /\ classReg' = classReg
         [] outcome = "no_window" ->
              /\ th' = [th EXCEPT ![m].pc = "err_window"]
              /\ classReg' = TRUE
         [] outcome = "no_listener" ->
              /\ th' = [th EXCEPT ![m].pc = "err_listener", ![m].hwnd = TRUE]
              /\ classReg' = TRUE
    /\ UNCHANGED <<clock, db, tx, ret, settings, monitor, running, clipboard,
                   changes, events, uuids, callVars>>

SetupOutcomes == {"ok", "class_exists", "no_window", "no_listener"}

\* a loop that never looks at the flag
LoopContinues_Always(r, m) == TRUE

\* running.load(SeqCst), the condition of the message loop
LoopContinues(r, m) == r[m]

\* while running.load(SeqCst): on false the loop is left,
\* RemoveClipboardFormatListener and DestroyWindow run (removeOk: the first
\* of them may fail, and the `?` returns before the second)
LCheck(m, removeOk) ==
    /\ m \in Monitors
    /\ th[m].pc = "check"
    /\ th' = IF LoopContinues(running, m) THEN [th EXCEPT ![m].pc = "peek"]
             ELSE IF removeOk
             THEN [th EXCEPT ![m] = [pc |-> "exited", hwnd |-> FALSE,
                                     listening |-> FALSE, msgs |-> 0]]
             ELSE [th EXCEPT ![m].pc = "err_remove", ![m].msgs = 0]
    /\ UNCHANGED <<clock, db, tx, ret, settings, monitor, running, classReg,
                   clipboard, changes, events, uuids, callVars>>

\* the body of the loop: PeekMessageW; on WM_CLIPBOARDUPDATE the capture,
\* save_item and the ItemAdded event; with no message, a sleep of 10 ms
LPeek(m, openOk, dataOk, commitOk) ==
    /\ m \in Monitors
    /\ th[m].pc = "peek"
    /\ tx = None
    /\ IF th[m].msgs = 0
       THEN /\ th' = [th EXCEPT ![m].pc = "check"]
            /\ UNCHANGED <<db, events, uuids>>
       ELSE \E c \in {capture_clipboard_content(
                          settings, clipboard, clock, NewUuid(uuids + 1),
                          openOk, IF dataOk THEN Formats ELSE {}, dataOk)} :
            \E s \in {IF c.kind = "ok"
                      THEN save_item(db, c.item, clock, commitOk)
                      ELSE [db |-> db, result |-> "err"]} :
                /\ uuids' = IF openOk THEN uuids + 1 ELSE uuids
                /\ th' = [th EXCEPT
                             ![m].pc = IF c.kind = "panic" THEN "panicked"
                                       ELSE "check",
                             ![m].msgs = IF c.kind = "panic" THEN 0
                                         ELSE @ - 1]
                /\ db' = s.db
                /\ events' = IF c.kind = "ok" /\ s.result # "err"
                              THEN Append(events, ItemAdded(c.item))
                              ELSE events
    /\ UNCHANGED <<clock, tx, ret, settings, monitor, running, classReg,
                   clipboard, changes, callVars>>

\* one step of the listener thread of the m-th monitor
ListenerStep(m) ==
    \/ \E outcome \in SetupOutcomes : LSetup(m, outcome)
    \/ \E removeOk \in BOOLEAN : LCheck(m, removeOk)
    \/ \E openOk, dataOk, commitOk \in BOOLEAN :
            LPeek(m, openOk, dataOk, commitOk)

-----------------------------------------------------------------------------
(* The OS clipboard *)

Repeat(c, n) == [i \in 1..n |-> c]

\* what is copied: a short text, a text of 101 one-byte characters, a text
\* of 34 three-byte characters (102 bytes), and nothing in a probed format
Payloads ==
    {[formats |-> {"text"}, text |-> <<104, 105, 0>>, app |-> Some(<<97>>)],
     [formats |-> {"text"}, text |-> Repeat(97, PreviewLimit + 1) \o <<0>>,
      app |-> None],
     [formats |-> {"text"},
      text |-> Repeat(20320, PreviewLimit \div 3 + 1) \o <<0>>,
      app |-> None],
     [formats |-> {}, text |-> <<>>, app |-> None]}

\* the clipboard changes: every registered listener window is posted a
\* WM_CLIPBOARDUPDATE
ClipboardChange(payload) ==
    /\ changes < MaxChanges
    /\ changes' = changes + 1
    /\ clipboard' = payload
    /\ th' = [m \in DOMAIN th |->
                IF th[m].listening /\ Alive(m)
                THEN [th[m] EXCEPT !.msgs = @ + 1] ELSE th[m]]
    /\ UNCHANGED <<clock, db, tx, ret, settings, monitor, running, classReg,
                   events, uuids, callVars>>

-----------------------------------------------------------------------------
(* The Core with its listener threads *)

\* a store left by an earlier run: an unprotected and a favorite entry
SeededDb ==
    [items |-> {ItemToRow(MkItem(1, StrP, 500, FALSE, FALSE, <<>>, NoMeta,
                                 None, None)),
                ItemToRow(MkItem(2, StrQ, 500, TRUE, FALSE, <<>>, NoMeta,
                                 None, None))},
     tags |-> {}, meta |-> {}]

InitMonitor ==
    /\ clock = FromTimestamp(DedupWindowSecs)
    /\ db = SeededDb
    /\ tx = None
    /\ ret = Idle
    /\ settings \in {DefaultSettings(d) : d \in KeepDays}
    /\ monitor = 0
    /\ running = <<>>
    /\ th = <<>>
    /\ classReg = FALSE
    /\ clipboard = [formats |-> {}, text |-> <<>>, app |-> None]
    /\ changes = 0
    /\ events = <<>>
    /\ uuids = 0
    /\ InitCalls

NextMonitor ==
    \/ CoreStart
    \/ \E ok \in BOOLEAN : CoreStop(ok)
    \/ \E m \in 1..MaxStarts : ListenerStep(m)
    \/ \E payload \in Payloads : ClipboardChange(payload)

SpecMonitor == InitMonitor /\ [][NextMonitor]_vars

\* every listener thread that can take a step eventually takes one
FairSpecMonitor ==
    SpecMonitor /\ \A m \in 1..MaxStarts : WF_vars(ListenerStep(m))

\* a Core that is never started: its Database driven through the API, and
\* ClipboardCore::stop
NextIdleCore ==
    \/ NextStore
    \/ \E ok \in BOOLEAN : CoreStop(ok)

SpecIdleCore == InitStore /\ [][NextIdleCore]_vars

-----------------------------------------------------------------------------
(* capture_clipboard_content on its own, over the snapshots of the clipboard *)

\* the CF_UNICODETEXT payloads: "hi", 100 and 101 one-byte characters, 51
\* two-byte characters (102 bytes), 34 three-byte characters (102 bytes)
\* and the empty text
Texts ==
    {<<104, 105, 0>>,
     Repeat(97, PreviewLimit) \o <<0>>,
     Repeat(97, PreviewLimit + 1) \o <<0>>,
     Repeat(233, PreviewLimit \div 2 + 1) \o <<0>>,
     Repeat(20320, PreviewLimit \div 3 + 1) \o <<0>>,
     <<0>>}

\* the clipboard offering the formats fs
Snapshot(fs, text) ==
    [formats |-> fs, text |-> text, app |-> None,
     image |-> [width |-> 2, height |-> 3],
     files |-> <<"a.txt", "b.txt">>,
     html |-> <<60, 98, 62>>]

\* the text payload only matters when CF_UNICODETEXT is offered
Snapshots ==
    UNION {{Snapshot(fs, t) : t \in IF "text" \in fs THEN Texts ELSE {<<0>>}} :
             fs \in SUBSET Formats}

InitCapture ==
    /\ clock = FromTimestamp(DedupWindowSecs)
    /\ db = EmptyDb
    /\ tx = None
    /\ ret = Idle
    /\ settings \in {[DefaultSettings(0) EXCEPT !.compress_images = b] :
                        b \in BOOLEAN}
    /\ monitor = 0
    /\ running = <<>>
    /\ th = <<>>
    /\ classReg = FALSE
    /\ clipboard \in Snapshots
    /\ changes = 0
    /\ events = <<>>
    /\ uuids = 0
    /\ InitCalls

\* one call of capture_clipboard_content; what it returned and what the
\* platform calls did are kept in ret
Capture(openOk, decodable, regOk) ==
    /\ ret.op = "none"
    /\ \E c \in {capture_clipboard_content(settings, clipboard, clock,
                                            NewUuid(1), openOk, decodable,
                                            regOk)} :
          ret' = [op |-> "capture",
                  item |-> IF c.kind = "ok" THEN Some(c.item) ELSE None,
                  days |-> 0, stage |-> "done", result |-> c.kind,
                  count |-> 0,
                  outcome |-> [openOk |-> openOk, decodable |-> decodable,
                               regOk |-> regOk]]
    /\ UNCHANGED <<clock, db, tx, settings, monVars, callVars>>

NextCapture ==
    \E openOk, regOk \in BOOLEAN, decodable \in SUBSET Formats :
        Capture(openOk, decodable, regOk)

SpecCapture == InitCapture /\ [][NextCapture]_vars

-----------------------------------------------------------------------------
(* ClipboardCore::update_settings, called through the FFI on another thread *)

MaxUpdates == 2

SettingsChanged(s) == [kind |-> "SettingsChanged", settings |-> s]

\* a parser that takes any JSON object with the two keys, whatever the
\* values
ParseSettings_Lenient(doc) ==
    IF /\ doc[1] = "json"
       /\ DOMAIN doc[2] = {"keep_days"} \cup SettingsFlags
    THEN Some(doc[2]) ELSE None

\* serde_json::from_str::<AppSettings>: the document is JSON, every field
\* of the struct is there, keep_days is a u32 and compress_images a bool
ParseSettings(doc) ==
    IF /\ doc[1] = "json"
       /\ DOMAIN doc[2] = {"keep_days"} \cup SettingsFlags
       /\ doc[2].keep_days \in Nat
       /\ \A f \in SettingsFlags : doc[2][f] \in BOOLEAN
    THEN Some(doc[2]) ELSE None

\* the documents handed to clipboard_core_update_settings: well-formed
\* ones, text that is not JSON, a document without keep_days, and a
\* keep_days that is no u32
SettingsDocs ==
    {ToJson(DefaultSettings(d)) : d \in KeepDays}
        \cup {<<"text", DefaultSettings(0)>>,
              ToJson([compress_images |-> TRUE]),
              ToJson([DefaultSettings(0) EXCEPT !.keep_days = -1])}

\* clipboard_core_update_settings up to the first statement of
\* ClipboardCore::update_settings: a document that does not parse returns
\* false; otherwise *self.settings.write() = settings
UpdBegin(doc) ==
    /\ upd.pc = "idle"
    /\ upd.calls < MaxUpdates
    /\ LET parsed == ParseSettings(doc)
       IN  IF parsed = None
           THEN /\ upd' = [upd EXCEPT !.doc = Some(doc), !.arg = None,
                                      !.result = "rejected",
                                      !.calls = @ + 1,
                                      !.found = Some(settings)]
                /\ settings' = settings
           ELSE /\ upd' = [upd EXCEPT !.pc = "written", !.doc = Some(doc),
                                      !.arg = parsed, !.result = "none",
                                      !.calls = @ + 1,
                                      !.found = Some(settings)]
                /\ settings' = parsed[1]
    /\ UNCHANGED <<storeVars, monVars, config, seen, stats, upd2, locks>>

\* Self::save_settings(&settings)?: config.json is written, or the error
\* is returned
UpdSave(ok) ==
    /\ upd.pc = "written"
    /\ IF ok
       THEN /\ config' = ToJson(upd.arg[1])
            /\ upd' = [upd EXCEPT !.pc = "saved"]
       ELSE /\ config' = config
            /\ upd' = [upd EXCEPT !.pc = "idle", !.result = "err"]
    /\ UNCHANGED <<storeVars, settings, monVars, seen, stats, upd2, locks>>

\* self.event_tx.send(ClipboardEvent::SettingsChanged(settings))
UpdSend ==
    /\ upd.pc = "saved"
    /\ events' = Append(events, SettingsChanged(upd.arg[1]))
    /\ upd' = [upd EXCEPT !.pc = "idle", !.result = "ok"]
    /\ UNCHANGED <<storeVars, settings, monitor, running, th, classReg,
                   clipboard, changes, uuids, config, seen, stats, upd2, locks>>

UpdateStep ==
    \/ \E doc \in SettingsDocs : UpdBegin(doc)
    \/ \E ok \in BOOLEAN : UpdSave(ok)
    \/ UpdSend

-----------------------------------------------------------------------------
(* The event channel: event_tx / event_rx of crossbeam_channel::unbounded *)

Range(f) == {f[i] : i \in DOMAIN f}

\* the events, by their place in `events`, that no receiver has taken
Pending == (1..Len(events)) \ UNION {Range(seen[s]) : s \in Subs}

\* a channel that hands out the newest message first
ChanNext_Newest(P) == CHOOSE i \in P : \A j \in P : j <= i

\* the message a recv() takes: the oldest one in the channel
ChanNext(P) == CHOOSE i \in P : \A j \in P : i <= j

\* core.receive_events().recv() on the thread of subscriber s: it takes
\* one message out of the channel, and blocks while there is none
Recv(s) ==
    /\ Pending # {}
    /\ seen' = [seen EXCEPT ![s] = Append(@, ChanNext(Pending))]
    /\ UNCHANGED <<storeVars, settings, monVars, config, upd, stats, upd2,
                   locks>>

\* the Core after start(), its listener in the message loop
InitBus ==
    /\ clock = FromTimestamp(DedupWindowSecs)
    /\ db = EmptyDb
    /\ tx = None
    /\ ret = Call("start", None, 0, "done", "ok", 0)
    /\ settings = DefaultSettings(1)
    /\ monitor = 1
    /\ running = <<TRUE>>
    /\ th = <<[pc |-> "check", hwnd |-> TRUE, listening |-> TRUE, msgs |-> 0]>>
    /\ classReg = TRUE
    /\ clipboard = [formats |-> {}, text |-> <<>>, app |-> None]
    /\ changes = 0
    /\ events = <<>>
    /\ uuids = 0
    /\ InitCalls

\* the listener captures and publishes, update_settings publishes, and
\* the subscribers receive
NextBus ==
    \/ \E removeOk \in BOOLEAN : LCheck(1, removeOk)
    \/ \E openOk, dataOk, commitOk \in BOOLEAN :
            LPeek(1, openOk, dataOk, commitOk)
    \/ \E payload \in Payloads : ClipboardChange(payload)
    \/ UpdateStep
    \/ \E s \in Subs : Recv(s)

SpecBus == InitBus /\ [][NextBus]_vars

\* every subscriber that can receive eventually does, and the listener and
\* update_settings take their steps
FairSpecBus ==
    /\ SpecBus
    /\ \A s \in Subs : WF_vars(Recv(s))
    /\ WF_vars(ListenerStep(1))
    /\ WF_vars(UpdSend)

-----------------------------------------------------------------------------
(* Database::get_statistics, query by query *)

\* SELECT COUNT(*) FROM clipboard_items WHERE content_type = ?
CountType(d, t) == Cardinality({r \in d.items : r.content_type = t})

\* the value the n-th COUNT query of get_statistics reads from d
StatsQuery(d, field) ==
    CASE field = "total_items" -> Cardinality(d.items)
      [] field = "text_items" -> CountType(d, "text")
      [] field = "image_items" -> CountType(d, "image")
      [] field = "file_items" -> CountType(d, "file")
      [] field = "html_items" -> CountType(d, "html")
      [] field = "favorite_items" ->
            Cardinality({r \in d.items : r.favorite = 1})
      [] field = "pinned_items" ->
            Cardinality({r \in d.items : r.pinned = 1})

\* the COUNT queries in the order get_statistics issues them
StatsOrder ==
    <<"total_items", "text_items", "image_items", "file_items", "html_items",
      "favorite_items", "pinned_items">>

\* the query that follows the one at which the call stands
StatsNext(pc) ==
    IF pc = "idle" THEN 1
    ELSE 1 + CHOOSE i \in DOMAIN StatsOrder : StatsOrder[i] = pc

\* one query_row(...)? of get_statistics on the caller's thread: each is a
\* statement of its own on the connection the listener saves through, no
\* transaction spans them; the first one starts from a zeroed Statistics,
\* the last one is followed by Ok(stats), and a failed one returns the
\* error
StatsStep(ok) ==
    /\ tx = None
    /\ LET n == StatsNext(stats.pc)
           from == IF stats.pc = "idle" THEN StatsIdle ELSE stats
       IN  IF ~ok
           THEN stats' = [from EXCEPT !.pc = "idle", !.result = "err"]
           ELSE stats' =
                  [from EXCEPT ![StatsOrder[n]] = StatsQuery(db, StatsOrder[n]),
                               !.pc = IF n = Len(StatsOrder) THEN "idle"
                                      ELSE StatsOrder[n],
                               !.result = IF n = Len(StatsOrder) THEN "ok"
                                          ELSE "none"]
    /\ UNCHANGED <<storeVars, settings, monVars, config, upd, seen, upd2,
                   locks>>

\* get_statistics called while the listener captures and saves
NextStats ==
    \/ \E removeOk \in BOOLEAN : LCheck(1, removeOk)
    \/ \E openOk, dataOk, commitOk \in BOOLEAN :
            LPeek(1, openOk, dataOk, commitOk)
    \/ \E payload \in Payloads : ClipboardChange(payload)
    \/ \E ok \in BOOLEAN : StatsStep(ok)

SpecStats == InitBus /\ [][NextStats]_vars

-----------------------------------------------------------------------------
(* Database::get_recent_items on a store that holds a damaged row *)

\* row_to_item returns Ok: the id parses as a Uuid and content_json,
\* tags_json and metadata_json parse with serde_json
RowDecodes(row) ==
    /\ row.id[1] = "uuid"
    /\ row.content_json[1] = "json"
    /\ row.tags_json[1] = "json"
    /\ row.metadata_json[1] = "json"

\* the orders in which ORDER BY timestamp DESC may hand out the rows: rows
\* of one timestamp come in any order
RecentOrders(d) ==
    {o \in [1..Cardinality(d.items) -> d.items] :
        /\ \A i, j \in DOMAIN o : i # j => o[i] # o[j]
        /\ \A i, j \in DOMAIN o : i < j => o[i].timestamp >= o[j].timestamp}

\* LIMIT ?
Limit(order, limit) ==
    SubSeq(order, 1, IF limit < Len(order) THEN limit ELSE Len(order))

\* get_recent_items: result.push(item?) over the rows of the query; the
\* first row that row_to_item fails on returns the error, and the Vec
\* built so far is dropped
get_recent_items(order, limit) ==
    LET rows == Limit(order, limit)
    IN  IF \E i \in DOMAIN rows : ~RowDecodes(rows[i])
        THEN [result |-> "err", items |-> <<>>]
        ELSE [result |-> "ok",
              items |-> [i \in DOMAIN rows |-> row_to_item(rows[i])]]

\* rows written by save_item: two of one second and an older one
GoodRows ==
    {ItemToRow(MkItem(1, StrP, FromTimestamp(2), FALSE, FALSE, <<>>, NoMeta,
                      None, None)),
     ItemToRow(MkItem(2, StrQ, FromTimestamp(2), TRUE, FALSE, <<>>, NoMeta,
                      None, None)),
     ItemToRow(MkItem(NewUuid(1), StrP, FromTimestamp(1), FALSE, TRUE, <<>>,
                      NoMeta, None, None))}

\* rows that something else left in history.db: a content_json that is no
\* JSON, and an id that is no Uuid
BadRows ==
    {[ItemToRow(MkItem(NewUuid(2), StrQ, FromTimestamp(t), FALSE, FALSE, <<>>,
                       NoMeta, None, None))
        EXCEPT !.content_json = <<"text", StrQ>>] : t \in 1..3}
      \cup
    {[ItemToRow(MkItem(NewUuid(2), StrQ, FromTimestamp(2), FALSE, FALSE, <<>>,
                       NoMeta, None, None))
        EXCEPT !.id = <<"text", StrQ>>]}

\* the limits asked for
Limits == 0..Cardinality(GoodRows) + 1

InitRecent ==
    /\ clock = FromTimestamp(DedupWindowSecs)
    /\ db \in {[EmptyDb EXCEPT !.items = g \cup b] :
                  g \in SUBSET GoodRows,
                  b \in {{}} \cup {{r} : r \in BadRows}}
    /\ tx = None
    /\ ret = Idle
    /\ settings = DefaultSettings(1)
    /\ monitor = 0
    /\ running = <<>>
    /\ th = <<>>
    /\ classReg = FALSE
    /\ clipboard = [formats |-> {}, text |-> <<>>, app |-> None]
    /\ changes = 0
    /\ events = <<>>
    /\ uuids = 0
    /\ InitCalls

\* one call of get_recent_items(limit); the rows the query handed out and
\* what the call returned are kept in ret
GetRecent(limit, order) ==
    /\ ret.op = "none"
    /\ tx = None
    /\ \E r \in {get_recent_items(order, limit)} :
          ret' = [op |-> "recent", item |-> None, days |-> 0,
                  stage |-> "done", result |-> r.result, count |-> limit,
                  items |-> r.items, rows |-> Limit(order, limit)]
    /\ UNCHANGED <<clock, db, tx, settings, monVars, callVars>>

NextRecent ==
    \E limit \in Limits : \E order \in RecentOrders(db) :
        GetRecent(limit, order)

SpecRecent == InitRecent /\ [][NextRecent]_vars

-----------------------------------------------------------------------------
(* The settings lock: the listener, update_settings and cleanup_old_items,
   statement by statement *)

Listener == "listener"
Updater == "updater"
Cleaner == "cleaner"

\* settings.read() returns: no writer holds the lock
CanRead(l) == l.writer = None

\* settings.write() returns: nobody holds the lock
CanWrite(l) == l.writer = None /\ l.readers = {}

AcquireRead(l, t) == [l EXCEPT !.readers = @ \cup {t}]

\* a read guard that is never dropped
ReleaseRead_Kept(l, t) == l

\* the read guard is dropped: at the end of the `if` condition in
\* capture_image, at the end of Core::cleanup_old_items
ReleaseRead(l, t) == [l EXCEPT !.readers = @ \ {t}]

\* what is copied while the lock is watched: a text, a bitmap, both
LockPayloads ==
    {Snapshot({"text"}, <<104, 105, 0>>), Snapshot({"image"}, <<0>>),
     Snapshot({"text", "image"}, <<104, 105, 0>>)}

\* the listener leaves a capture cycle and goes back to the loop condition
LkBack(t) == [t EXCEPT !.pc = "check", !.msgs = @ - 1, !.item = None]

\* PeekMessageW and capture_clipboard_content up to the point where
\* capture_image reaches settings.read(); every other format is captured
\* without the settings being read
LkPeek(openOk, dataOk) ==
    /\ th[1].pc = "peek"
    /\ IF th[1].msgs = 0
       THEN /\ th' = [th EXCEPT ![1].pc = "check"]
            /\ uuids' = uuids
       ELSE /\ uuids' = IF openOk THEN uuids + 1 ELSE uuids
            /\ IF openOk /\ dataOk /\ SelectFormat(clipboard.formats) = "image"
               THEN th' = [th EXCEPT ![1].pc = "want_read"]
               ELSE \E c \in {capture_clipboard_content(
                                  settings, clipboard, clock,
                                  NewUuid(uuids + 1), openOk,
                                  IF dataOk THEN Formats ELSE {}, dataOk)} :
                        th' = IF c.kind = "ok"
                              THEN [th EXCEPT ![1].pc = "save",
                                              ![1].item = Some(c.item)]
                              ELSE [th EXCEPT ![1] = LkBack(@)]
    /\ UNCHANGED <<storeVars, settings, monitor, running, classReg, clipboard,
                   changes, events, callVars>>

\* settings.read() in capture_image returns the guard
LkAcquire ==
    /\ th[1].pc = "want_read"
    /\ CanRead(locks)
    /\ locks' = AcquireRead(locks, Listener)
    /\ th' = [th EXCEPT ![1].pc = "cond"]
    /\ UNCHANGED <<storeVars, settings, monitor, running, classReg, clipboard,
                   changes, events, uuids, config, upd, seen, stats, upd2>>

\* compress_images is read, the guard is dropped with the condition, and
\* capture_image builds the item
LkCond ==
    /\ th[1].pc = "cond"
    /\ locks' = ReleaseRead(locks, Listener)
    /\ \E c \in {capture_clipboard_content(settings, clipboard, clock,
                                            NewUuid(uuids), TRUE, Formats,
                                            TRUE)} :
          th' = [th EXCEPT ![1].pc = "save", ![1].item = Some(c.item)]
    /\ UNCHANGED <<storeVars, settings, monitor, running, classReg, clipboard,
                   changes, events, uuids, config, upd, seen, stats, upd2>>

\* database.save_item(item.clone()): the transaction is opened and the
\* near-duplicate query run; a near duplicate returns Ok(()) at once
LkSaveBegin ==
    /\ th[1].pc = "save"
    /\ tx = None
    /\ IF ExistsRecent(db, th[1].item[1], clock)
       THEN /\ tx' = None
            /\ th' = [th EXCEPT ![1].pc = "send"]
       ELSE /\ tx' = Some(SaveMainRow(db, th[1].item[1]))
            /\ th' = [th EXCEPT ![1].pc = "commit"]
    /\ UNCHANGED <<clock, db, ret, settings, monitor, running, classReg,
                   clipboard, changes, events, uuids, callVars>>

\* the tag and metadata rows and tx.commit()?; on an error the transaction
\* is dropped and the listener logs it
LkCommit(commitOk) ==
    /\ th[1].pc = "commit"
    /\ tx # None
    /\ \E r \in {save_item(db, th[1].item[1], clock, commitOk)} :
          /\ db' = r.db
          /\ th' = IF r.result = "err" THEN [th EXCEPT ![1] = LkBack(@)]
                   ELSE [th EXCEPT ![1].pc = "send"]
    /\ tx' = None
    /\ UNCHANGED <<clock, ret, settings, monitor, running, classReg,
                   clipboard, changes, events, uuids, callVars>>

\* event_tx.send(ClipboardEvent::ItemAdded(item))
LkSend ==
    /\ th[1].pc = "send"
    /\ events' = Append(events, ItemAdded(th[1].item[1]))
    /\ th' = [th EXCEPT ![1] = LkBack(@)]
    /\ UNCHANGED <<storeVars, settings, monitor, running, classReg, clipboard,
                   changes, uuids, callVars>>

\* clipboard_core_update_settings up to settings.write(): the document is
\* parsed
LkUpdBegin(doc) ==
    /\ upd.pc = "idle"
    /\ upd.calls < MaxUpdates
    /\ LET parsed == ParseSettings(doc)
       IN  upd' = IF parsed = None
                  THEN [upd EXCEPT !.doc = Some(doc), !.arg = None,
                                   !.result = "rejected", !.calls = @ + 1,
                                   !.found = Some(settings)]
                  ELSE [upd EXCEPT !.pc = "want_write", !.doc = Some(doc),
                                   !.arg = parsed, !.result = "none",
                                   !.calls = @ + 1,
                                   !.found = Some(settings)]
    /\ UNCHANGED <<storeVars, settings, monVars, config, seen, stats, upd2,
                   locks>>

\* self.settings.write() returns the guard
LkUpdLock ==
    /\ upd.pc = "want_write"
    /\ CanWrite(locks)
    /\ locks' = [locks EXCEPT !.writer = Some(Updater)]
    /\ upd' = [upd EXCEPT !.pc = "writing"]
    /\ UNCHANGED <<storeVars, settings, monVars, config, seen, stats, upd2>>

\* *guard = settings.clone(); the guard is dropped with the statement
LkUpdWrite ==
    /\ upd.pc = "writing"
    /\ settings' = upd.arg[1]
    /\ locks' = [locks EXCEPT !.writer = None]
    /\ upd' = [upd EXCEPT !.pc = "written"]
    /\ UNCHANGED <<storeVars, monVars, config, seen, stats, upd2>>

\* Core::cleanup_old_items is called
LkCleanBegin ==
    /\ ret.stage = "done"
    /\ ret' = Call("cleanup", None, 0, "want_read", "ok", 0)
    /\ UNCHANGED <<clock, db, tx, settings, monVars, callVars>>

\* let settings = self.settings.read()
LkCleanAcquire ==
    /\ ret.op = "cleanup" /\ ret.stage = "want_read"
    /\ CanRead(locks)
    /\ locks' = AcquireRead(locks, Cleaner)
    /\ ret' = [ret EXCEPT !.stage = "locked"]
    /\ UNCHANGED <<clock, db, tx, settings, monVars, config, upd, seen, stats,
                   upd2>>

\* self.database.cleanup_old_items(settings.keep_days)? under the guard,
\* which is dropped when the function returns
LkCleanRun(ok) ==
    /\ ret.op = "cleanup" /\ ret.stage = "locked"
    /\ tx = None
    /\ IF ok
       THEN /\ db' = cleanup_old_items(db, settings.keep_days, clock)
            /\ ret' = Call("cleanup", None, settings.keep_days, "done", "ok",
                           Cardinality(db.items) - Cardinality(db'.items))
       ELSE /\ db' = db
            /\ ret' = Call("cleanup", None, settings.keep_days, "done",
                           "err", 0)
    /\ locks' = ReleaseRead(locks, Cleaner)
    /\ UNCHANGED <<clock, tx, settings, monVars, config, upd, seen, stats,
                   upd2>>

\* the steps that take, use or give back the lock or the transaction
LockProgress ==
    \/ LkAcquire
    \/ LkCond
    \/ \E commitOk \in BOOLEAN : LkCommit(commitOk)
    \/ LkUpdLock
    \/ LkUpdWrite
    \/ LkCleanAcquire
    \/ \E ok \in BOOLEAN : LkCleanRun(ok)

\* the Core after start() with a store left by an earlier run
InitLocks ==
    /\ clock = FromTimestamp(DedupWindowSecs)
    /\ db = SeededDb
    /\ tx = None
    /\ ret = Call("start", None, 0, "done", "ok", 0)
    /\ settings = DefaultSettings(1)
    /\ monitor = 1
    /\ running = <<TRUE>>
    /\ th = <<[pc |-> "check", hwnd |-> TRUE, listening |-> TRUE, msgs |-> 0,
               item |-> None]>>
    /\ classReg = TRUE
    /\ clipboard = [formats |-> {}, text |-> <<>>, app |-> None]
    /\ changes = 0
    /\ events = <<>>
    /\ uuids = 0
    /\ InitCalls

NextLocks ==
    \/ \E removeOk \in BOOLEAN : LCheck(1, removeOk)
    \/ \E openOk, dataOk \in BOOLEAN : LkPeek(openOk, dataOk)
    \/ LkSaveBegin
    \/ LkSend
    \/ \E payload \in LockPayloads : ClipboardChange(payload)
    \/ \E doc \in SettingsDocs : LkUpdBegin(doc)
    \/ \E ok \in BOOLEAN : UpdSave(ok)
    \/ UpdSend
    \/ LkCleanBegin
    \/ LockProgress

SpecLocks == InitLocks /\ [][NextLocks]_vars

-----------------------------------------------------------------------------
(* The tag operations and delete of the Database API *)

\* the tags of the entry of that id as a bulk read returns them
TagsOf(d, id) ==
    FromJson((CHOOSE r \in d.items : r.id = UuidToString(id)).tags_json)

HasItem(d, id) == \E r \in d.items : r.id = UuidToString(id)

\* adding an existing tag is a no-op; a new tag goes to the end
RECURSIVE AddEach(_, _)
AddEach(tags, S) ==
    IF S = <<>> THEN tags
    ELSE AddEach(IF Head(S) \in Range(tags) THEN tags
                 ELSE Append(tags, Head(S)),
                 Tail(S))

\* remove_tags that removes nothing
RemoveEach_Nothing(tags, S) == tags

\* removing an absent tag is a no-op
RemoveEach(tags, S) ==
    LET keep(t) == t \notin Range(S) IN SelectSeq(tags, keep)

\* the serialized tags of the entry and its rows of item_tags are replaced
\* together
SetTags(d, id, tags) ==
    LET sid == UuidToString(id)
        old == CHOOSE r \in d.items : r.id = sid
    IN  [d EXCEPT !.items = (@ \ {old})
                                \cup {[old EXCEPT !.tags_json = ToJson(tags)]},
                  !.tags = {t \in @ : t[1] # sid}
                                \cup {<<sid, tags[i]>> : i \in DOMAIN tags}]

\* Database::add_tags(id, tags)
add_tags(d, id, S) ==
    IF ~HasItem(d, id) THEN [db |-> d, result |-> "missing"]
    ELSE [db |-> SetTags(d, id, AddEach(TagsOf(d, id), S)), result |-> "ok"]

\* Database::remove_tags(id, tags)
remove_tags(d, id, S) ==
    IF ~HasItem(d, id) THEN [db |-> d, result |-> "missing"]
    ELSE [db |-> SetTags(d, id, RemoveEach(TagsOf(d, id), S)),
          result |-> "ok"]

\* Database::delete_item(id): the row goes, and ON DELETE CASCADE takes its
\* rows of item_tags and item_metadata
delete_item(d, id) == DeleteItems(d, {UuidToString(id)})

\* the tag lists handed to add_tags and remove_tags
TagSets == {<<"a">>, <<"a", "b">>, <<"c">>, <<"c", "c">>}

\* what a tag call leaves in ret: the call, what it was given and the tags
\* it found
TagCall(op, id, S, r) ==
    [op |-> op, item |-> None, days |-> 0, stage |-> "done",
     result |-> r.result, count |-> 0, id |-> id, tagset |-> S,
     before |-> IF HasItem(db, id) THEN TagsOf(db, id) ELSE <<>>]

AddTags(id, S) ==
    /\ tx = None
    /\ ret.stage = "done"
    /\ \E r \in {add_tags(db, id, S)} :
          /\ db' = r.db
          /\ ret' = TagCall("add_tags", id, S, r)
    /\ UNCHANGED <<clock, tx, settings, monVars, callVars>>

RemoveTags(id, S) ==
    /\ tx = None
    /\ ret.stage = "done"
    /\ \E r \in {remove_tags(db, id, S)} :
          /\ db' = r.db
          /\ ret' = TagCall("remove_tags", id, S, r)
    /\ UNCHANGED <<clock, tx, settings, monVars, callVars>>

DeleteItem(id) ==
    /\ tx = None
    /\ ret.stage = "done"
    /\ db' = delete_item(db, id)
    /\ ret' = Call("delete", None, 0, "done", "ok",
                   Cardinality(db.items) - Cardinality(db'.items))
    /\ UNCHANGED <<clock, tx, settings, monVars, callVars>>

\* the entries saved while tags are edited: plain, tagged, and tagged
\* with a repeated value
TagItems ==
    {MkItem(id, StrP, 500, FALSE, FALSE, <<>>, NoMeta, None, None) :
        id \in Ids}
      \cup RichItems

\* an empty store, the near-duplicate window of the entries gone by
InitTags ==
    /\ clock = FromTimestamp(DedupWindowSecs)
    /\ db = EmptyDb
    /\ tx = None
    /\ ret = Idle
    /\ settings \in {DefaultSettings(d) : d \in KeepDays}
    /\ monitor = 0
    /\ running = <<>>
    /\ th = <<>>
    /\ classReg = FALSE
    /\ clipboard = None
    /\ changes = 0
    /\ events = <<>>
    /\ uuids = 0
    /\ InitCalls

NextTags ==
    \/ \E item \in TagItems : SaveBegin(item)
    \/ SaveTags
    \/ \E ok \in BOOLEAN : SaveCommit(ok)
    \/ \E d \in KeepDays, ok \in BOOLEAN : Cleanup(d, ok)
    \/ \E id \in Ids : DeleteItem(id)
    \/ \E id \in Ids, S \in TagSets : AddTags(id, S)
    \/ \E id \in Ids, S \in TagSets : RemoveTags(id, S)

SpecTags == InitTags /\ [][NextTags]_vars

-----------------------------------------------------------------------------
(* Two update_settings calls at once: clipboard_core_update_settings takes
   the Core under core_ref.read(), so a second caller is not kept out *)

\* the well-formed documents
GoodDocs == {doc \in SettingsDocs : ParseSettings(doc) # None}

\* the second caller: parse, then *self.settings.write() = settings
Upd2Begin(doc) ==
    /\ upd2.pc = "idle"
    /\ upd2.calls < MaxUpdates
    /\ LET parsed == ParseSettings(doc)
       IN  IF parsed = None
           THEN /\ upd2' = [upd2 EXCEPT !.doc = Some(doc), !.arg = None,
                                        !.result = "rejected",
                                        !.calls = @ + 1,
                                        !.found = Some(settings)]
                /\ settings' = settings
           ELSE /\ upd2' = [upd2 EXCEPT !.pc = "written", !.doc = Some(doc),
                                        !.arg = parsed, !.result = "none",
                                        !.calls = @ + 1,
                                        !.found = Some(settings)]
                /\ settings' = parsed[1]
    /\ UNCHANGED <<storeVars, monVars, config, upd, seen, stats, locks>>

\* the second caller: Self::save_settings(&settings)?
Upd2Save(ok) ==
    /\ upd2.pc = "written"
    /\ IF ok
       THEN /\ config' = ToJson(upd2.arg[1])
            /\ upd2' = [upd2 EXCEPT !.pc = "saved"]
       ELSE /\ config' = config
            /\ upd2' = [upd2 EXCEPT !.pc = "idle", !.result = "err"]
    /\ UNCHANGED <<storeVars, settings, monVars, upd, seen, stats, locks>>

\* the second caller: self.event_tx.send(SettingsChanged(settings))
Upd2Send ==
    /\ upd2.pc = "saved"
    /\ events' = Append(events, SettingsChanged(upd2.arg[1]))
    /\ upd2' = [upd2 EXCEPT !.pc = "idle", !.result = "ok"]
    /\ UNCHANGED <<storeVars, settings, monitor, running, th, classReg,
                   clipboard, changes, uuids, config, upd, seen, stats, locks>>

\* two callers with well-formed documents and a configuration file that
\* can be written; the subscribers receive
NextTwoUpdaters ==
    \/ \E doc \in GoodDocs : UpdBegin(doc)
    \/ UpdSave(TRUE)
    \/ UpdSend
    \/ \E doc \in GoodDocs : Upd2Begin(doc)
    \/ Upd2Save(TRUE)
    \/ Upd2Send
    \/ \E s \in Subs : Recv(s)

SpecTwoUpdaters == InitBus /\ [][NextTwoUpdaters]_vars

-----------------------------------------------------------------------------
(* The per-type save toggles, changed while the listener runs *)

\* the settings with one of the save toggles off, and with none
ToggleDocs ==
    {ToJson(DefaultSettings(1))}
      \cup {ToJson([DefaultSettings(1) EXCEPT ![f] = FALSE]) :
                f \in SettingsFlags \ {"compress_images"}}

\* what is copied: one snapshot for each format
TogglePayloads ==
    {Snapshot({f}, IF f = "text" THEN <<104, 105, 0>> ELSE <<0>>) :
        f \in Formats}

NextToggles ==
    \/ \E removeOk \in BOOLEAN : LCheck(1, removeOk)
    \/ \E openOk, dataOk, commitOk \in BOOLEAN :
            LPeek(1, openOk, dataOk, commitOk)
    \/ \E payload \in TogglePayloads : ClipboardChange(payload)
    \/ \E doc \in ToggleDocs : UpdBegin(doc)
    \/ \E ok \in BOOLEAN : UpdSave(ok)
    \/ UpdSend

SpecToggles == InitBus /\ [][NextToggles]_vars

-----------------------------------------------------------------------------
(* ClipboardCore::stop, statement by statement *)

\* stop(), first statement: the flag of self.monitor, if there is one
CoreStopFlag ==
    /\ ret.stage = "done"
    /\ tx = None
    /\ running' = MonitorStop(running, monitor)
    /\ ret' = Call("stop", None, 0, "flag", "ok", 0)
    /\ UNCHANGED <<clock, db, tx, settings, monitor, th, classReg, clipboard,
                   changes, events, uuids, callVars>>

\* stop(), second statement: self.cleanup_old_items()? with the keep_days
\* read from the settings at this moment, then Ok(())
CoreStopCleanup(ok) ==
    /\ ret.op = "stop" /\ ret.stage = "flag"
    /\ tx = None
    /\ IF ok
       THEN /\ db' = cleanup_old_items(db, StopKeepDays(settings), clock)
            /\ ret' = Call("stop", None, StopKeepDays(settings), "done", "ok",
                           Cardinality(db.items) - Cardinality(db'.items))
       ELSE /\ db' = db
            /\ ret' = Call("stop", None, StopKeepDays(settings), "done",
                           "err", 0)
    /\ UNCHANGED <<clock, tx, settings, monitor, running, th, classReg,
                   clipboard, changes, events, uuids, callVars>>

\* the Core started and stopped while the settings are updated and time
\* passes; the clipboard does not change
NextStopping ==
    \/ Advance
    \/ CoreStart
    \/ CoreStopFlag
    \/ \E ok \in BOOLEAN : CoreStopCleanup(ok)
    \/ UpdateStep
    \/ \E m \in 1..MaxStarts : ListenerStep(m)

SpecStopping == InitMonitor /\ [][NextStopping]_vars

-----------------------------------------------------------------------------
(* Properties of the Core and its listener threads *)

\* a step that is a call of ClipboardCore::stop
StopStep ==
    /\ ret.stage = "done" /\ tx = None
    /\ ret'.op = "stop"
    /\ th' = th /\ changes' = changes /\ clock' = clock

\* the m-th start is a restart: the monitor before it was stopped, and this
\* one is the monitor of the Core with its flag set
IsRestart(m) ==
    /\ m \in Monitors /\ m > 1
    /\ monitor = m /\ running[m] /\ ~running[m - 1]

\* C6, as stated: once Core.stop() has returned, and until the next call of
\* the Core, eventually no listener thread started by the Core is running
C6_Original ==
    [](ret.op = "stop" =>
          <>(ret.op # "stop" \/ \A m \in Monitors : ~Alive(m)))

\* C7, as stated: whatever the payload and whatever the outcome of the
\* clipboard open, the decoding and the save, a listener that is in the body
\* of its loop goes back to the head of its loop
C7_Original ==
    [][\A m \in Monitors :
          th[m].pc = "peek" => th'[m].pc \in {"peek", "check"}]_vars

C9_Original ==
    \A m \in 1..MaxStarts :
        IsRestart(m) ~>
            \/ ~IsRestart(m)
            \/ m \in Monitors /\ Servicing(m)
            \/ /\ m \in Monitors
               /\ th[m].pc \in {"err_window", "err_listener", "panicked"}

-----------------------------------------------------------------------------
(* Properties of the capture cycle *)

\* a step in which the listener m takes a WM_CLIPBOARDUPDATE and runs the
\* capture cycle
CycleStep(m) ==
    /\ m \in Monitors
    /\ th[m].pc = "peek" /\ th[m].msgs > 0
    /\ th'[m].msgs < th[m].msgs

\* C12, as stated: a capture cycle that finds none of the supported formats
\* on the clipboard writes nothing to the store and publishes no event
C12_Original ==
    [][\A m \in 1..MaxStarts :
          (CycleStep(m) /\ clipboard.formats = {}) =>
              (db' = db /\ events' = events)]_vars

\* C13, as stated: every entry that a capture cycle has put in the store
\* has a non-empty preview_text
C13_Original ==
    \A r \in db.items \ SeededDb.items : r.preview_text # <<>>

\* C14, as stated: the preview of a captured text of more than 100
\* characters is its first 100 characters and the ellipsis; of any other
\* text, the text itself
C14_Original ==
    (ret.op = "capture" /\ ret.result = "ok" /\ "text" \in clipboard.formats)
        => LET t == ret.item[1].content.text
           IN  ret.item[1].preview_text =
                   IF Len(t) > PreviewLimit
                   THEN SubSeq(t, 1, PreviewLimit) \o Ellipsis
                   ELSE t

\* the order in which the formats are to be preferred
Priority == <<"text", "image", "files", "html">>

\* the available format that comes first in Priority
FirstAvailable(available) ==
    Priority[CHOOSE i \in 1..Len(Priority) :
                /\ Priority[i] \in available
                /\ \A j \in 1..(i - 1) : Priority[j] \notin available]

\* the content of an entry captured from format f
KindOf(f) ==
    CASE f = "text" -> "Text"
      [] f = "image" -> "Image"
      [] f = "files" -> "FileList"
      [] f = "html" -> "Html"

\* C15: when the clipboard offers a supported format, an entry that a
\* capture returns has the content of the available format that comes
\* first in the order text, image, file list, markup; and when the decoding
\* of that format fails the capture returns no entry, whatever the other
\* formats on the clipboard
C15_Theorem ==
    (ret.op = "capture" /\ clipboard.formats # {}) =>
        LET f == FirstAvailable(clipboard.formats)
        IN  /\ ret.result = "ok" =>
                /\ ret.item[1].content.kind = KindOf(f)
                /\ f \in ret.outcome.decodable
            /\ f \notin ret.outcome.decodable =>
                (ret.result = "err" /\ ret.item = None)

\* text and a bitmap were on the clipboard, the text could not be read, the
\* bitmap could have been, and the capture has returned an error
C15_Witness ==
    /\ ret.op = "capture" /\ ret.result = "err" /\ ret.outcome.openOk
    /\ {"text", "image"} \subseteq clipboard.formats
    /\ "text" \notin ret.outcome.decodable
    /\ "image" \in ret.outcome.decodable

-----------------------------------------------------------------------------
(* Properties of stop(), statement by statement *)

\* the step of stop() that clears the flag
StopFlagStep ==
    /\ ret.stage = "done"
    /\ ret'.op = "stop" /\ ret'.stage = "flag"

\* the step of stop() that runs the cleanup and returns
StopReturnStep ==
    /\ ret.op = "stop" /\ ret.stage = "flag"
    /\ ret'.op = "stop" /\ ret'.stage = "done"

\* C11: the first statement of stop() leaves the store as it is; a stop()
\* that returns Ok has, in its last step and with the flag of the monitor
\* already cleared, removed exactly the entries that one cleanup pass with
\* the keep_days of the settings of that moment removes
C11_Theorem ==
    [][/\ StopFlagStep => db' = db
       /\ (StopReturnStep /\ ret'.result = "ok") =>
            /\ monitor # 0 => ~running[monitor]
            /\ running' = running /\ settings' = settings
            /\ ret'.days = settings.keep_days
            /\ db'.items =
                  {r \in db.items :
                      \/ r.favorite = 1
                      \/ r.pinned = 1
                      \/ r.timestamp >=
                            Timestamp(MinusDays(clock, settings.keep_days))}
      ]_vars

\* a started Core was stopped after its settings were updated, and the
\* cleanup pass of stop() has removed an entry
C11_Witness ==
    /\ ret.op = "stop" /\ ret.stage = "done" /\ ret.result = "ok"
    /\ ret.count > 0
    /\ monitor # 0 /\ ~running[monitor]
    /\ upd.calls > 0 /\ settings # FromJson(config)

-----------------------------------------------------------------------------
(* Properties of the event channel *)

\* C16, as stated: every subscriber comes to observe every event that is
\* published
C16_Original ==
    \A s \in Subs : \A i \in 1..(MaxChanges + MaxUpdates) :
        [](Len(events) >= i => <>(i \in Range(seen[s])))

\* the a-th and the b-th event that subscriber s observed are ItemAdded
BothItemAdded(s, a, b) ==
    /\ events[seen[s][a]].kind = "ItemAdded"
    /\ events[seen[s][b]].kind = "ItemAdded"

\* C17: two ItemAdded events that a subscriber has observed were observed
\* in the order in which the listener sent them
C17_Theorem ==
    \A s \in Subs : \A a, b \in 1..Len(seen[s]) :
        (a < b /\ BothItemAdded(s, a, b)) => seen[s][a] < seen[s][b]

\* a subscriber has observed two ItemAdded events between which
\* update_settings sent a SettingsChanged
C17_Witness ==
    \E s \in Subs : \E a, b \in 1..Len(seen[s]) :
        /\ a < b /\ BothItemAdded(s, a, b)
        /\ \E k \in (seen[s][a] + 1)..(seen[s][b] - 1) :
              events[k].kind = "SettingsChanged"

\* a document that is a Settings value in JSON
IsSettingsDocument(doc) ==
    /\ doc[1] = "json"
    /\ doc[2] \in [keep_days : Nat, compress_images : BOOLEAN,
                  save_text : BOOLEAN, save_images : BOOLEAN,
                  save_files : BOOLEAN, save_html : BOOLEAN]

\* a step in which clipboard_core_update_settings is entered
UpdCallStep == upd'.calls = upd.calls + 1

\* C18: a call of update_settings with a malformed settings document
\* reports failure and leaves the settings in memory, the persisted
\* configuration and the event stream as they were; no step of that call
\* remains to be taken
C18_Theorem ==
    [][(UpdCallStep /\ ~IsSettingsDocument(upd'.doc[1]))
            => /\ upd'.result = "rejected"
               /\ upd'.pc = "idle"
               /\ settings' = settings
               /\ config' = config
               /\ events' = events]_vars

\* a malformed document was rejected after a well-formed one had been
\* applied and published
C18_Witness ==
    /\ upd.result = "rejected"
    /\ upd.calls = 2
    /\ ~IsSettingsDocument(upd.doc[1])
    /\ \E i \in 1..Len(events) : events[i].kind = "SettingsChanged"

-----------------------------------------------------------------------------
(* Properties of get_statistics *)

\* C19: every value statistics() returns has favorite_items <= total_items,
\* pinned_items <= total_items and text_items + image_items + file_items +
\* html_items <= total_items, also while the Monitor saves
C19_Original ==
    stats.result = "ok" =>
        /\ stats.favorite_items <= stats.total_items
        /\ stats.pinned_items <= stats.total_items
        /\ stats.text_items + stats.image_items + stats.file_items
                + stats.html_items <= stats.total_items

-----------------------------------------------------------------------------
(* Properties of get_recent_items *)

\* C20: a stored row that fails to deserialize does not make the bulk read
\* fail as a whole: get_recent(limit) still returns the well-formed rows
\* of its query
C20_Original ==
    ret.op = "recent" =>
        \A i \in DOMAIN ret.rows :
            RowDecodes(ret.rows[i])
                => \E k \in DOMAIN ret.items :
                        ret.items[k] = row_to_item(ret.rows[i])

-----------------------------------------------------------------------------
(* Properties of the settings lock *)

\* a thread stands at a lock or at the connection and cannot go on
Waiting ==
    \/ th[1].pc = "want_read" /\ ~CanRead(locks)
    \/ upd.pc = "want_write" /\ ~CanWrite(locks)
    \/ ret.stage = "want_read" /\ ~CanRead(locks)
    \/ ret.stage = "locked" /\ tx # None

\* the listener is in save_item
InSave == th[1].pc \in {"save", "commit"}

\* a step of the listener inside its open transaction
SaveTxStep == tx # None /\ th'[1] # th[1]

\* C21: the Monitor thread holds no Settings read lock when it calls
\* Store.save, Store.save neither takes the Settings lock nor publishes an
\* event while its transaction is open, and no interleaving of capture
\* cycles, update_settings and cleanup_old_items deadlocks: whenever a
\* thread waits, a thread that holds what it waits for can take its step
C21_Theorem ==
    /\ [](InSave => Listener \notin locks.readers)
    /\ [](Waiting => ENABLED LockProgress)
    /\ [][SaveTxStep => (locks' = locks /\ events' = events)]_vars

\* the updater waits for the write lock while the cleaner holds a read
\* guard, after the listener has read the settings under its own guard
\* and is saving the image
C21_Witness ==
    /\ upd.pc = "want_write"
    /\ Cleaner \in locks.readers
    /\ th[1].pc = "commit"
    /\ th[1].item[1].content.kind = "Image"

-----------------------------------------------------------------------------
(* Properties of the tags and of the derived tables *)

\* a step that is remove_tags(id, S) right after add_tags(id, S), both Ok
AddThenRemoveStep ==
    /\ ret.op = "add_tags" /\ ret.result = "ok"
    /\ ret'.op = "remove_tags" /\ ret'.result = "ok"
    /\ ret'.id = ret.id /\ ret'.tagset = ret.tagset

\* C22 as stated: for every original tag set T0 and every tag set S, also
\* one that overlaps T0, add_tags(id, S) followed by remove_tags(id, S)
\* leaves the tags of the entry equal to T0
C22_Original ==
    [][AddThenRemoveStep => TagsOf(db', ret.id) = ret.before]_vars

\* C22: for every original tag set T0 and every tag set S that shares no
\* tag with T0, add_tags(id, S) followed by remove_tags(id, S) leaves the
\* tags of the entry equal to T0
C22_Theorem ==
    [][(AddThenRemoveStep /\ Range(ret.tagset) \cap Range(ret.before) = {})
            => TagsOf(db', ret.id) = ret.before]_vars

\* remove_tags(id, <<c>>) has undone an add_tags on an entry saved with
\* the tags a and b: only add_tags brings the tag c
C22_Witness ==
    /\ ret.op = "remove_tags" /\ ret.result = "ok"
    /\ ret.tagset = <<"c">>
    /\ ret.before = <<"a", "b", "c">>
    /\ TagsOf(db, ret.id) = <<"a", "b">>

NoRepeat(seq) == \A i, j \in DOMAIN seq : i # j => seq[i] # seq[j]

\* C23: in every reachable state no stored entry's tags hold the same value
\* twice, after the save of any entry and after add_tags applied twice with
\* overlapping tag sets
C23_Theorem == \A r \in db.items : NoRepeat(FromJson(r.tags_json))

\* add_tags was applied twice with overlapping tag sets: <<a, b>> to an
\* entry saved without tags that only add_tags(<<a>>) can have given the
\* tag a
C23_Witness ==
    /\ ret.op = "add_tags" /\ ret.result = "ok"
    /\ ret.tagset = <<"a", "b">>
    /\ ret.before = <<"a">>
    /\ TagsOf(db, ret.id) = <<"a", "b">>

\* C25: every row of the tag index and of the metadata index refers to an
\* entry that exists, and the tag rows of an entry are exactly the tags of
\* that entry
C25_Theorem ==
    /\ \A t \in db.tags : \E r \in db.items : r.id = t[1]
    /\ \A m \in db.meta : \E r \in db.items : r.id = m[1]
    /\ \A r \in db.items :
          {t[2] : t \in {x \in db.tags : x[1] = r.id}}
              = Range(FromJson(r.tags_json))

\* an entry that had tag and metadata rows was saved again without tags,
\* and the other entry was deleted
C25_Witness ==
    /\ ret.op = "delete" /\ ret.count = 1
    /\ Cardinality(db.items) = 1
    /\ \E r \in db.items : FromJson(r.tags_json) = <<>> /\ r.preview_text = StrP
    /\ db.tags = {} /\ db.meta = {}

-----------------------------------------------------------------------------
(* Properties of the ItemAdded event *)

\* C24: for every ItemAdded(e) the Monitor publishes, an entry with the
\* identifier of e was committed by that capture cycle before the event
\* was published; a capture whose save failed or was absorbed by the
\* near-duplicate rule publishes no ItemAdded.  Where nothing deletes, the
\* committed entry is still in the store.
C24_Original ==
    \A i \in 1..Len(events) :
        events[i].kind = "ItemAdded"
            => HasItem(db, events[i].item.id)

-----------------------------------------------------------------------------
(* Properties of the listener's window *)

\* monitor_loop has returned, with Ok(()) or through one of its `?`
Returned(m) ==
    th[m].pc \in {"exited", "err_class", "err_window", "err_listener",
                  "err_remove"}

\* C26: on every exit path of monitor_loop (cooperative stop, failure to
\* register the clipboard listener after the window was created, failure
\* while unregistering) the clipboard listener has been unregistered and
\* the window destroyed when the function has returned
C26_Original ==
    \A m \in Monitors : Returned(m) => ~th[m].hwnd /\ ~th[m].listening

-----------------------------------------------------------------------------
(* Properties of update_settings *)

\* every update_settings call made so far has returned Ok, and there was
\* one of each caller
AllUpdatesReturnedOk ==
    /\ upd.pc = "idle" /\ upd.result = "ok"
    /\ upd2.pc = "idle" /\ upd2.result = "ok"

\* the SettingsChanged events, oldest first
SettingsEvents ==
    LET isSettings(e) == e.kind = "SettingsChanged"
    IN  SelectSeq(events, isSettings)

\* C27: for every interleaving of concurrent update_settings calls, once
\* all of them have returned successfully the persisted configuration
\* document equals the settings in memory, and both equal the settings of
\* the last SettingsChanged event
C27_Original ==
    AllUpdatesReturnedOk =>
        /\ config = ToJson(settings)
        /\ SettingsEvents[Len(SettingsEvents)].settings = settings

\* the update_settings call has returned an error from save_settings
UpdFailed == upd.pc = "idle" /\ upd.result = "err"

\* a step that sends SettingsChanged(s)
SettingsSentStep(s) ==
    /\ Len(events') = Len(events) + 1
    /\ events'[Len(events')] = SettingsChanged(s)

\* C28: if update_settings returns an error, the settings a following
\* get_settings returns are the ones in effect before the call and no
\* SettingsChanged was published; SettingsChanged(s) is published only
\* after s has been applied in memory and persisted
C28_Original ==
    /\ [](UpdFailed => settings = upd.found[1])
    /\ [][(upd'.result = "err" /\ upd.result # "err") => events' = events]_vars
    /\ [][\A d \in KeepDays :
            SettingsSentStep(DefaultSettings(d))
                => /\ settings = DefaultSettings(d)
                   /\ config = ToJson(DefaultSettings(d))]_vars

-----------------------------------------------------------------------------
(* Properties of the cooperative stop *)

\* a step in which an entry is captured: a Uuid is drawn or ItemAdded sent
CaptureStep ==
    \/ uuids' # uuids
    \/ /\ Len(events') > Len(events)
       /\ events'[Len(events')].kind = "ItemAdded"

\* C29: after Monitor.stop() has returned, a listener begins at most one
\* further capture cycle, the one whose check of the loop condition came
\* before the flag was cleared: the flag stays cleared, a listener that is
\* not inside the loop body does not enter it again, a capture takes its
\* listener out of the loop body to the loop condition, and nothing is
\* captured, stored or published except by a listener inside the loop body
C29_Theorem ==
    [][/\ \A m \in Monitors :
            /\ ~running[m] => ~running'[m]
            /\ (~running[m] /\ th[m].pc # "peek") => th'[m].pc # "peek"
       /\ CaptureStep =>
            /\ db'.items \subseteq db.items \cup
                    {r \in db'.items : r.id = UuidToString(NewUuid(uuids'))}
            /\ \E m \in Monitors : th[m].pc = "peek" /\ th'[m].pc # "peek"
       /\ (\A m \in Monitors : th[m].pc # "peek")
            => events' = events /\ db'.items \subseteq db.items
      ]_vars

\* stop() has returned while the listener is inside the loop body with a
\* notification waiting, after an earlier capture: the one further cycle
C29_Witness ==
    /\ ret.op = "stop"
    /\ monitor = 1 /\ ~running[1]
    /\ th[1].pc = "peek" /\ th[1].msgs > 0
    /\ Len(events) > 0

-----------------------------------------------------------------------------
(* Properties of the save toggles *)

\* the toggle of the settings that a content type goes by
SaveAllowed(s, kind) ==
    CASE kind = "Text" -> s.save_text
      [] kind = "Image" -> s.save_images
      [] kind = "FileList" -> s.save_files
      [] kind = "Html" -> s.save_html
      [] OTHER -> TRUE

\* C30: the per-type save toggles are honoured on every capture: a step
\* that stores an entry or publishes ItemAdded does so for a content type
\* whose toggle is true in the settings of that moment, also after
\* update_settings has changed the toggle while the Monitor is running
C30_Original ==
    [][/\ \A r \in db'.items \ db.items :
            SaveAllowed(settings, FromJson(r.content_json).kind)
       /\ (/\ Len(events') > Len(events)
           /\ events'[Len(events')].kind = "ItemAdded")
            => SaveAllowed(settings, events'[Len(events')].item.content.kind)
      ]_vars

====
